---- MODULE Spec2Model ----
(***************************************************************************)
(* A model of init_script.py, the provisioning script of cs333init_script.  *)
(* The script is one sequential process: the entry point calls six step     *)
(* functions in a fixed order, each step runs external commands through     *)
(* subprocess.run(..., check=True) inside a try/except, and the entry point *)
(* exits with status 1 as soon as a step returns False.                     *)
(*                                                                         *)
(* pc is the source line of the next statement to execute (0: the process   *)
(* has exited).  Every external command either succeeds ("ok"), exits       *)
(* non-zero ("CalledProcessError") or cannot be launched at all             *)
(* ("Exception", e.g. FileNotFoundError); the environment chooses.  A       *)
(* command changes the file system and the service only when it succeeds.   *)
(***************************************************************************)
EXTENDS Integers, Sequences, FiniteSets, TLC

VARIABLES
    pc,           \* source line of the next statement; 0 after the exit
    cmds,         \* this run's subprocess.run calls, in order
    log,          \* this run's log entries, in order
    fs,           \* the files and directories the script reads or writes
    svc,          \* the tooltrack systemd service
    success,      \* prereq_success, clone_success, ... of __main__
    calls,        \* the step functions __main__ has called, in order
    exit_status,  \* -1 while running, then the process's exit status
    runs,         \* how many times the script has been started
    DOMAIN_NAME,  \* configuration, read from the environment at start
    APP_PORT

vars == <<pc, cmds, log, fs, svc, success, calls, exit_status, runs,
          DOMAIN_NAME, APP_PORT>>

\* How many times the script is run against the same machine.
MaxRuns == 2

\* The configurations explored: the built-in defaults, the documented
\* example, and a domain whose virtual-host file is 000-default.conf itself.
Domains == {"2tooltrack.m3chok.com", "example.com", "000-default"}
Ports == {8000, 9000}

-----------------------------------------------------------------------------
\* Configuration (lines 11-22), with the built-in fallbacks.

PROJECT_NAME == "cs333_FinalProject"
BASE_DIR == "/srv"
PROJECT_DIR == BASE_DIR \o "/" \o PROJECT_NAME
VENV_DIR == PROJECT_DIR \o "/" \o "venv"
VENV_PIP == VENV_DIR \o "/bin/pip"
VENV_ACTIVATE == VENV_DIR \o "/bin/activate"
GUNICORN_BIN == VENV_DIR \o "/bin/gunicorn"
USER == "ubuntu"

\* Paths the steps name.  The virtual environment and requirements.txt are
\* given relative to the working directory, which is PROJECT_DIR (line 40).
requirements_txt == PROJECT_DIR \o "/" \o "requirements.txt"
repo_url == "https://github.com/pakin6509681182/cs333_FinalProject.git"
apache_conf_dir == "/etc/apache2/sites-available"
default_conf == apache_conf_dir \o "/000-default.conf"
default_ssl_conf == apache_conf_dir \o "/default-ssl.conf"
vhost_file(d) == apache_conf_dir \o "/" \o d \o ".conf"
vhost_temp(d) == "/tmp/" \o d \o ".conf"
service_file_path == "/etc/systemd/system/tooltrack.service"
service_temp == "/tmp/tooltrack.service"
expect_file == "/tmp/certbot_expect.exp"
certbot_link == "/usr/bin/certbot"

Paths(d) == {BASE_DIR, PROJECT_DIR, VENV_DIR, requirements_txt, default_conf,
             default_ssl_conf, vhost_file(d), vhost_temp(d), service_file_path,
             service_temp, expect_file, certbot_link}

\* The f-string of lines 135-145.
vhost_content(d, p) ==
    "<VirtualHost *:80>\n"
    \o "        ServerName " \o d \o "\n"
    \o "        ServerAlias www." \o d \o "\n"
    \o "\n"
    \o "        ProxyPass / http://127.0.0.1:" \o ToString(p) \o "/\n"
    \o "        ProxyPassReverse / http://127.0.0.1:" \o ToString(p) \o "/\n"
    \o "\n"
    \o "</VirtualHost>\n"
    \o "\n"
    \o "# vim: syntax=apache ts=4 sw=4 sts=4 sr noet\n"

\* The f-string of lines 194-206.
service_content(p) ==
    "[Unit]\n"
    \o "Description=Tooltrack Web Server\n"
    \o "\n"
    \o "[Service]\n"
    \o "ExecStart=" \o GUNICORN_BIN \o " app:app -w 4 -b 127.0.0.1:" \o ToString(p) \o "\n"
    \o "WorkingDirectory=" \o PROJECT_DIR \o "\n"
    \o "Restart=on-failure\n"
    \o "User=ubuntu\n"
    \o "Group=ubuntu\n"
    \o "\n"
    \o "[Install]\n"
    \o "WantedBy=multi-user.target\n"

\* The string of lines 245-257.
expect_script ==
    "#!/usr/bin/expect\n"
    \o "set timeout 300\n"
    \o "spawn sudo certbot --apache\n"
    \o "expect \"Enter email address\"\n"
    \o "send \"the1name@outlook.com\\r\"\n"
    \o "expect \"the Terms of Service\"\n"
    \o "send \"Y\\r\"\n"
    \o "expect \"share your email\"\n"
    \o "send \"N\\r\"\n"
    \o "expect \"Select the appropriate number\"\n"
    \o "send \"\\r\"\n"
    \o "expect eof\n"

-----------------------------------------------------------------------------
\* The steps and their places in __main__ (lines 277-322).

Steps == <<"install_prerequisites", "clone_repository",
           "setup_virtual_environment", "setup_background_service",
           "setup_apache_reverse_proxy", "setup_ssl_certificates">>
StepSet == {Steps[i] : i \in 1..Len(Steps)}

\* The line of __main__ that calls the step; the if that tests its result
\* is the next line.
CallLine(s) ==
    CASE s = "install_prerequisites" -> 283
      [] s = "clone_repository" -> 289
      [] s = "setup_virtual_environment" -> 295
      [] s = "setup_background_service" -> 301
      [] s = "setup_apache_reverse_proxy" -> 307
      [] s = "setup_ssl_certificates" -> 316
GateLine(s) == CallLine(s) + 1

\* The first statement of the step's body.
EntryLine(s) ==
    CASE s = "install_prerequisites" -> 77
      [] s = "clone_repository" -> 96
      [] s = "setup_virtual_environment" -> 38
      [] s = "setup_background_service" -> 208
      [] s = "setup_apache_reverse_proxy" -> 128
      [] s = "setup_ssl_certificates" -> 236

\* The except clause of the step that catches exception r.
ExceptLine(s, r) ==
    LET cpe == CASE s = "install_prerequisites" -> 85
                 [] s = "clone_repository" -> 118
                 [] s = "setup_virtual_environment" -> 58
                 [] s = "setup_background_service" -> 226
                 [] s = "setup_apache_reverse_proxy" -> 183
                 [] s = "setup_ssl_certificates" -> 270
    IN  IF r = "CalledProcessError" THEN cpe ELSE cpe + 3

\* What subprocess.run(..., check=True) can do.
Outcomes == {"ok", "CalledProcessError", "Exception"}
\* What a Python file or directory operation can do.
PyOutcomes == {"ok", "Exception"}

\* log_message (lines 65-72): only the three known levels are logged.
log_message(lg, line, level) ==
    IF level \in {"INFO", "ERROR", "WARNING"}
    THEN Append(lg, [level |-> level, line |-> line])
    ELSE lg

\* subprocess.run at the given line with the given argument list.
Invoke(line, argv, r) ==
    Append(cmds, [line |-> line, argv |-> argv, result |-> r])

\* os.path.exists
exists(p) == fs[p] # "absent"

Config == <<DOMAIN_NAME, APP_PORT>>

-----------------------------------------------------------------------------
Init ==
    /\ pc = 279
    /\ cmds = << >>
    /\ log = << >>
    /\ DOMAIN_NAME \in Domains
    /\ APP_PORT \in Ports
    /\ \E base \in BOOLEAN, target \in BOOLEAN, dflt \in BOOLEAN :
         /\ target => base
         /\ fs = [p \in Paths(DOMAIN_NAME) |->
                    IF p = BASE_DIR /\ base THEN "dir"
                    ELSE IF p = PROJECT_DIR /\ target THEN "dir"
                    ELSE IF p = default_conf /\ dflt THEN "default"
                    ELSE "absent"]
    /\ svc = [running |-> FALSE, enabled |-> FALSE]
    /\ success = [s \in StepSet |-> "unset"]
    /\ calls = << >>
    /\ exit_status = -1
    /\ runs = 1

-----------------------------------------------------------------------------
\* __main__ (lines 277-322)

\* line 279
MainStart ==
    /\ pc = 279
    /\ log' = log_message(log, 279, "INFO")
    /\ pc' = CallLine(Steps[1])
    /\ UNCHANGED <<cmds, fs, svc, success, calls, exit_status, runs, Config>>

\* lines 283, 289, 295, 301, 307, 316: the call of a step
MainCall ==
    \E s \in StepSet :
        /\ pc = CallLine(s)
        /\ calls' = Append(calls, s)
        /\ pc' = EntryLine(s)
        /\ UNCHANGED <<cmds, log, fs, svc, success, exit_status, runs, Config>>

\* Faulty variant: the service and the reverse proxy are set up in the other order.
AfterStep_apacheFirst(i) ==
    CASE i = 3 -> CallLine(Steps[5])
      [] i = 5 -> CallLine(Steps[4])
      [] i = 4 -> CallLine(Steps[6])
      [] i = 6 -> 0
      [] OTHER -> CallLine(Steps[i + 1])

\* Where __main__ goes on after step number i returned True, and what it
\* logs on the way (lines 312-313 and 321-322); 0 is the end of the script.
AfterStep(i) == IF i < Len(Steps) THEN CallLine(Steps[i + 1]) ELSE 0
LoggedAfter(lg, i) ==
    IF i = 5 THEN log_message(log_message(lg, 312, "INFO"), 313, "INFO")
    ELSE IF i = 6 THEN log_message(log_message(lg, 321, "INFO"), 322, "INFO")
    ELSE lg

\* Faulty variant: the failure is logged but sys.exit(1) is missing.
MainGate_continue ==
    \E i \in 1..Len(Steps) :
        /\ pc = GateLine(Steps[i])
        /\ log' = IF success[Steps[i]] # "True"
                  THEN log_message(log, pc + 1, "ERROR")
                  ELSE LoggedAfter(log, i)
        /\ pc' = AfterStep(i)
        /\ exit_status' = IF AfterStep(i) = 0 THEN 0 ELSE exit_status
        /\ UNCHANGED <<cmds, fs, svc, success, calls, runs, Config>>

\* Faulty variant: sys.exit() without the status.
MainGate_exit0 ==
    \E i \in 1..Len(Steps) :
        /\ pc = GateLine(Steps[i])
        /\ IF success[Steps[i]] # "True"
           THEN /\ log' = log_message(log, pc + 1, "ERROR")
                /\ exit_status' = 0
                /\ pc' = 0
           ELSE /\ log' = LoggedAfter(log, i)
                /\ pc' = AfterStep(i)
                /\ exit_status' = IF AfterStep(i) = 0 THEN 0 ELSE exit_status
        /\ UNCHANGED <<cmds, fs, svc, success, calls, runs, Config>>

\* Faulty variant: a step that returned False is called a second time.
MainGate_retry ==
    \E i \in 1..Len(Steps) :
        /\ pc = GateLine(Steps[i])
        /\ IF success[Steps[i]] # "True"
           THEN IF Cardinality({k \in 1..Len(calls) : calls[k] = Steps[i]}) < 2
                THEN /\ log' = log
                     /\ exit_status' = exit_status
                     /\ pc' = CallLine(Steps[i])
                ELSE /\ log' = log_message(log, pc + 1, "ERROR")
                     /\ exit_status' = 1
                     /\ pc' = 0
           ELSE /\ log' = LoggedAfter(log, i)
                /\ pc' = AfterStep(i)
                /\ exit_status' = IF AfterStep(i) = 0 THEN 0 ELSE exit_status
        /\ UNCHANGED <<cmds, fs, svc, success, calls, runs, Config>>

\* lines 284-286, 290-292, ..., 317-319: "if not <step>_success", and the
\* normal end of the script after the last one.
MainGate ==
    \E i \in 1..Len(Steps) :
        /\ pc = GateLine(Steps[i])
        /\ IF success[Steps[i]] # "True"
           THEN /\ log' = log_message(log, pc + 1, "ERROR")
                /\ exit_status' = 1
                /\ pc' = 0
           ELSE /\ log' = LoggedAfter(log, i)
                /\ pc' = AfterStep(i)
                /\ exit_status' = IF AfterStep(i) = 0 THEN 0 ELSE exit_status
        /\ UNCHANGED <<cmds, fs, svc, success, calls, runs, Config>>

\* Faulty variant: the except clauses log the error and return True.
ExceptHandler_returnsTrue ==
    \E s \in StepSet, r \in {"CalledProcessError", "Exception"} :
        /\ pc = ExceptLine(s, r)
        /\ log' = log_message(log, pc + 1, "ERROR")
        /\ success' = [success EXCEPT ![s] = "True"]
        /\ pc' = GateLine(s)
        /\ UNCHANGED <<cmds, fs, svc, calls, exit_status, runs, Config>>

\* Faulty variant: the except clauses of setup_apache_reverse_proxy start the
\* service again before returning False.
ExceptHandler_rollback ==
    \E s \in StepSet, r \in {"CalledProcessError", "Exception"} :
        /\ pc = ExceptLine(s, r)
        /\ log' = log_message(log, pc + 1, "ERROR")
        /\ success' = [success EXCEPT ![s] = "False"]
        /\ pc' = GateLine(s)
        /\ IF s = "setup_apache_reverse_proxy"
           THEN /\ cmds' = Invoke(pc + 1, <<"sudo", "systemctl", "start", "tooltrack">>, "ok")
                /\ svc' = [svc EXCEPT !.running = TRUE]
           ELSE UNCHANGED <<cmds, svc>>
        /\ UNCHANGED <<fs, calls, exit_status, runs, Config>>

\* The two except clauses that end every step: log an ERROR, return False.
ExceptHandler ==
    \E s \in StepSet, r \in {"CalledProcessError", "Exception"} :
        /\ pc = ExceptLine(s, r)
        /\ log' = log_message(log, pc + 1, "ERROR")
        /\ success' = [success EXCEPT ![s] = "False"]
        /\ pc' = GateLine(s)
        /\ UNCHANGED <<cmds, fs, svc, calls, exit_status, runs, Config>>

\* The script is started again on the same machine with the same
\* environment: a new process, the file system and the service as left.
Rerun ==
    /\ pc = 0
    /\ runs < MaxRuns
    /\ runs' = runs + 1
    /\ pc' = 279
    /\ cmds' = << >>
    /\ log' = << >>
    /\ calls' = << >>
    /\ success' = [s \in StepSet |-> "unset"]
    /\ exit_status' = -1
    /\ UNCHANGED <<fs, svc, Config>>

-----------------------------------------------------------------------------
\* install_prerequisites (lines 74-90)

\* lines 77-78
AptUpdate ==
    /\ pc = 77
    /\ \E r \in Outcomes :
        /\ cmds' = Invoke(78, <<"sudo", "apt", "update">>, r)
        /\ pc' = IF r = "ok" THEN 80 ELSE ExceptLine("install_prerequisites", r)
    /\ log' = log_message(log, 77, "INFO")
    /\ UNCHANGED <<fs, svc, success, calls, exit_status, runs, Config>>

\* lines 80-84
AptInstallPython ==
    /\ pc = 80
    /\ \E r \in Outcomes :
        /\ cmds' = Invoke(81, <<"sudo", "apt", "install", "-y", "python3-venv", "python3-pip">>, r)
        /\ IF r = "ok"
           THEN /\ log' = log_message(log_message(log, 80, "INFO"), 83, "INFO")
                /\ success' = [success EXCEPT !["install_prerequisites"] = "True"]
                /\ pc' = GateLine("install_prerequisites")
           ELSE /\ log' = log_message(log, 80, "INFO")
                /\ success' = success
                /\ pc' = ExceptLine("install_prerequisites", r)
    /\ UNCHANGED <<fs, svc, calls, exit_status, runs, Config>>

-----------------------------------------------------------------------------
\* clone_repository (lines 92-123)

\* line 96
CheckBaseDir ==
    /\ pc = 96
    /\ pc' = IF ~exists(BASE_DIR) THEN 97 ELSE 101
    /\ UNCHANGED <<cmds, log, fs, svc, success, calls, exit_status, runs, Config>>

\* lines 97-98
MkdirBase ==
    /\ pc = 97
    /\ \E r \in Outcomes :
        /\ cmds' = Invoke(98, <<"sudo", "mkdir", "-p", BASE_DIR>>, r)
        /\ fs' = IF r = "ok" THEN [fs EXCEPT ![BASE_DIR] = "dir"] ELSE fs
        /\ pc' = IF r = "ok" THEN 101 ELSE ExceptLine("clone_repository", r)
    /\ log' = log_message(log, 97, "INFO")
    /\ UNCHANGED <<svc, success, calls, exit_status, runs, Config>>

\* lines 101-102
ChownBase ==
    /\ pc = 101
    /\ \E r \in Outcomes :
        /\ cmds' = Invoke(102, <<"sudo", "chown", USER \o ":" \o USER, BASE_DIR>>, r)
        /\ pc' = IF r = "ok" THEN 107 ELSE ExceptLine("clone_repository", r)
    /\ log' = log_message(log, 101, "INFO")
    /\ UNCHANGED <<fs, svc, success, calls, exit_status, runs, Config>>

\* Faulty variant: the existing target is never removed.
CheckTargetDir_noRemove ==
    /\ pc = 107
    /\ log' = log_message(log, 111, "INFO")
    /\ pc' = 113
    /\ UNCHANGED <<cmds, fs, svc, success, calls, exit_status, runs, Config>>

\* lines 107-111
CheckTargetDir ==
    /\ pc = 107
    /\ IF exists(PROJECT_DIR)
       THEN /\ log' = log_message(log, 108, "INFO")
            /\ pc' = 109
       ELSE /\ log' = log_message(log, 111, "INFO")
            /\ pc' = 113
    /\ UNCHANGED <<cmds, fs, svc, success, calls, exit_status, runs, Config>>

\* line 109: rm -rf takes the directory and everything below it
RmTarget ==
    /\ pc = 109
    /\ \E r \in Outcomes :
        /\ cmds' = Invoke(109, <<"sudo", "rm", "-rf", PROJECT_DIR>>, r)
        /\ fs' = IF r = "ok"
                 THEN [fs EXCEPT ![PROJECT_DIR] = "absent", ![VENV_DIR] = "absent",
                                 ![requirements_txt] = "absent"]
                 ELSE fs
        /\ pc' = IF r = "ok" THEN 113 ELSE ExceptLine("clone_repository", r)
    /\ UNCHANGED <<log, svc, success, calls, exit_status, runs, Config>>

\* lines 113-117: the repository cloned may or may not hold a requirements.txt
GitClone ==
    /\ pc = 113
    /\ \E r \in Outcomes :
        /\ cmds' = Invoke(114, <<"git", "clone", repo_url, PROJECT_DIR>>, r)
        /\ IF r = "ok"
           THEN /\ \E req \in {"absent", "file"} :
                     fs' = [fs EXCEPT ![PROJECT_DIR] = "dir", ![requirements_txt] = req]
                /\ log' = log_message(log_message(log, 113, "INFO"), 116, "INFO")
                /\ success' = [success EXCEPT !["clone_repository"] = "True"]
                /\ pc' = GateLine("clone_repository")
           ELSE /\ fs' = fs
                /\ log' = log_message(log, 113, "INFO")
                /\ success' = success
                /\ pc' = ExceptLine("clone_repository", r)
    /\ UNCHANGED <<svc, calls, exit_status, runs, Config>>

-----------------------------------------------------------------------------
\* setup_virtual_environment (lines 34-63)

\* lines 38-40: os.makedirs(PROJECT_DIR, exist_ok=True) and os.chdir
EnterProjectDir ==
    /\ pc = 38
    /\ \E r \in PyOutcomes :
        /\ fs' = IF r = "ok" /\ ~exists(PROJECT_DIR)
                 THEN [fs EXCEPT ![BASE_DIR] = "dir", ![PROJECT_DIR] = "dir"]
                 ELSE fs
        /\ pc' = IF r = "ok" THEN 43 ELSE ExceptLine("setup_virtual_environment", r)
    /\ log' = log_message(log, 38, "INFO")
    /\ UNCHANGED <<cmds, svc, success, calls, exit_status, runs, Config>>

\* lines 43-44
CreateVenv ==
    /\ pc = 43
    /\ \E r \in Outcomes :
        /\ cmds' = Invoke(44, <<"python3", "-m", "venv", "venv">>, r)
        /\ fs' = IF r = "ok" THEN [fs EXCEPT ![VENV_DIR] = "dir"] ELSE fs
        /\ pc' = IF r = "ok" THEN 47 ELSE ExceptLine("setup_virtual_environment", r)
    /\ log' = log_message(log, 43, "INFO")
    /\ UNCHANGED <<svc, success, calls, exit_status, runs, Config>>

\* Faulty variant: the installer is run whether or not requirements.txt exists.
CheckRequirements_alwaysInstall ==
    /\ pc = 47
    /\ log' = log_message(log, 48, "INFO")
    /\ pc' = 49
    /\ UNCHANGED <<cmds, fs, svc, success, calls, exit_status, runs, Config>>

\* lines 47-48 and 51-57
CheckRequirements ==
    /\ pc = 47
    /\ IF exists(requirements_txt)
       THEN /\ log' = log_message(log, 48, "INFO")
            /\ success' = success
            /\ pc' = 49
       ELSE /\ log' = log_message(log_message(log_message(log,
                          52, "WARNING"), 54, "INFO"), 55, "INFO")
            /\ success' = [success EXCEPT !["setup_virtual_environment"] = "True"]
            /\ pc' = GateLine("setup_virtual_environment")
    /\ UNCHANGED <<cmds, fs, svc, calls, exit_status, runs, Config>>

\* lines 49-50 and 54-57
PipInstall ==
    /\ pc = 49
    /\ \E r \in Outcomes :
        /\ cmds' = Invoke(49, <<VENV_PIP, "install", "-r", "requirements.txt">>, r)
        /\ IF r = "ok"
           THEN /\ log' = log_message(log_message(log_message(log,
                              50, "INFO"), 54, "INFO"), 55, "INFO")
                /\ success' = [success EXCEPT !["setup_virtual_environment"] = "True"]
                /\ pc' = GateLine("setup_virtual_environment")
           ELSE /\ log' = log
                /\ success' = success
                /\ pc' = ExceptLine("setup_virtual_environment", r)
    /\ UNCHANGED <<fs, svc, calls, exit_status, runs, Config>>

-----------------------------------------------------------------------------
\* setup_background_service (lines 190-231)

\* lines 208-210
WriteServiceTemp ==
    /\ pc = 208
    /\ \E r \in PyOutcomes :
        /\ fs' = IF r = "ok"
                 THEN [fs EXCEPT ![service_temp] = service_content(APP_PORT)]
                 ELSE fs
        /\ pc' = IF r = "ok" THEN 212 ELSE ExceptLine("setup_background_service", r)
    /\ log' = log_message(log, 208, "INFO")
    /\ UNCHANGED <<cmds, svc, success, calls, exit_status, runs, Config>>

\* line 212
CpService ==
    /\ pc = 212
    /\ \E r \in Outcomes :
        /\ cmds' = Invoke(212, <<"sudo", "cp", service_temp, service_file_path>>, r)
        /\ fs' = IF r = "ok"
                 THEN [fs EXCEPT ![service_file_path] = fs[service_temp]]
                 ELSE fs
        /\ pc' = IF r = "ok" THEN 214 ELSE ExceptLine("setup_background_service", r)
    /\ UNCHANGED <<log, svc, success, calls, exit_status, runs, Config>>

\* lines 214-215
DaemonReload ==
    /\ pc = 214
    /\ \E r \in Outcomes :
        /\ cmds' = Invoke(215, <<"sudo", "systemctl", "daemon-reload">>, r)
        /\ pc' = IF r = "ok" THEN 217 ELSE ExceptLine("setup_background_service", r)
    /\ log' = log_message(log, 214, "INFO")
    /\ UNCHANGED <<fs, svc, success, calls, exit_status, runs, Config>>

\* lines 217-218
StartService ==
    /\ pc = 217
    /\ \E r \in Outcomes :
        /\ cmds' = Invoke(218, <<"sudo", "systemctl", "start", "tooltrack">>, r)
        /\ svc' = IF r = "ok" THEN [svc EXCEPT !.running = TRUE] ELSE svc
        /\ pc' = IF r = "ok" THEN 220 ELSE ExceptLine("setup_background_service", r)
    /\ log' = log_message(log, 217, "INFO")
    /\ UNCHANGED <<fs, success, calls, exit_status, runs, Config>>

\* lines 220-225
EnableService ==
    /\ pc = 220
    /\ \E r \in Outcomes :
        /\ cmds' = Invoke(221, <<"sudo", "systemctl", "enable", "tooltrack">>, r)
        /\ svc' = IF r = "ok" THEN [svc EXCEPT !.enabled = TRUE] ELSE svc
        /\ IF r = "ok"
           THEN /\ log' = log_message(log_message(log_message(log,
                              220, "INFO"), 223, "INFO"), 224, "INFO")
                /\ success' = [success EXCEPT !["setup_background_service"] = "True"]
                /\ pc' = GateLine("setup_background_service")
           ELSE /\ log' = log_message(log, 220, "INFO")
                /\ success' = success
                /\ pc' = ExceptLine("setup_background_service", r)
    /\ UNCHANGED <<fs, calls, exit_status, runs, Config>>

-----------------------------------------------------------------------------
\* setup_apache_reverse_proxy (lines 125-188)

\* lines 128-129
AptInstallApache ==
    /\ pc = 128
    /\ \E r \in Outcomes :
        /\ cmds' = Invoke(129, <<"sudo", "apt", "install", "-y", "apache2">>, r)
        /\ pc' = IF r = "ok" THEN 131 ELSE ExceptLine("setup_apache_reverse_proxy", r)
    /\ log' = log_message(log, 128, "INFO")
    /\ UNCHANGED <<fs, svc, success, calls, exit_status, runs, Config>>

\* lines 131-132
StopService ==
    /\ pc = 131
    /\ \E r \in Outcomes :
        /\ cmds' = Invoke(132, <<"sudo", "systemctl", "stop", "tooltrack">>, r)
        /\ svc' = IF r = "ok" THEN [svc EXCEPT !.running = FALSE] ELSE svc
        /\ pc' = IF r = "ok" THEN 149 ELSE ExceptLine("setup_apache_reverse_proxy", r)
    /\ log' = log_message(log, 131, "INFO")
    /\ UNCHANGED <<fs, success, calls, exit_status, runs, Config>>

\* lines 149-152
RmDefaultSsl ==
    /\ pc = 149
    /\ \E r \in Outcomes :
        /\ cmds' = Invoke(152, <<"sudo", "rm", "-f", default_ssl_conf>>, r)
        /\ fs' = IF r = "ok" THEN [fs EXCEPT ![default_ssl_conf] = "absent"] ELSE fs
        /\ pc' = IF r = "ok" THEN 155 ELSE ExceptLine("setup_apache_reverse_proxy", r)
    /\ log' = log_message(log, 149, "INFO")
    /\ UNCHANGED <<svc, success, calls, exit_status, runs, Config>>

\* lines 155-156
CheckDefaultConf ==
    /\ pc = 155
    /\ IF exists(default_conf)
       THEN /\ log' = log_message(log, 156, "INFO")
            /\ pc' = 157
       ELSE /\ log' = log
            /\ pc' = 160
    /\ UNCHANGED <<cmds, fs, svc, success, calls, exit_status, runs, Config>>

\* line 157: mv refuses to move a file onto itself
MvDefaultConf ==
    /\ pc = 157
    /\ \E r \in IF default_conf = vhost_file(DOMAIN_NAME)
                THEN Outcomes \ {"ok"} ELSE Outcomes :
        /\ cmds' = Invoke(157, <<"sudo", "mv", default_conf, vhost_file(DOMAIN_NAME)>>, r)
        /\ fs' = IF r = "ok"
                 THEN [fs EXCEPT ![vhost_file(DOMAIN_NAME)] = fs[default_conf],
                                 ![default_conf] = "absent"]
                 ELSE fs
        /\ pc' = IF r = "ok" THEN 160 ELSE ExceptLine("setup_apache_reverse_proxy", r)
    /\ UNCHANGED <<log, svc, success, calls, exit_status, runs, Config>>

\* lines 160-161
WriteVhostTemp ==
    /\ pc = 160
    /\ \E r \in PyOutcomes :
        /\ fs' = IF r = "ok"
                 THEN [fs EXCEPT ![vhost_temp(DOMAIN_NAME)] =
                                      vhost_content(DOMAIN_NAME, APP_PORT)]
                 ELSE fs
        /\ pc' = IF r = "ok" THEN 162 ELSE ExceptLine("setup_apache_reverse_proxy", r)
    /\ UNCHANGED <<cmds, log, svc, success, calls, exit_status, runs, Config>>

\* Faulty variant: cp -n, which leaves an existing virtual-host file alone.
CpVhost_noClobber ==
    /\ pc = 162
    /\ \E r \in Outcomes :
        /\ cmds' = Invoke(162, <<"sudo", "cp", vhost_temp(DOMAIN_NAME),
                                 vhost_file(DOMAIN_NAME)>>, r)
        /\ fs' = IF r = "ok" /\ ~exists(vhost_file(DOMAIN_NAME))
                 THEN [fs EXCEPT ![vhost_file(DOMAIN_NAME)] = fs[vhost_temp(DOMAIN_NAME)]]
                 ELSE fs
        /\ pc' = IF r = "ok" THEN 164 ELSE ExceptLine("setup_apache_reverse_proxy", r)
    /\ UNCHANGED <<log, svc, success, calls, exit_status, runs, Config>>

\* line 162
CpVhost ==
    /\ pc = 162
    /\ \E r \in Outcomes :
        /\ cmds' = Invoke(162, <<"sudo", "cp", vhost_temp(DOMAIN_NAME),
                                 vhost_file(DOMAIN_NAME)>>, r)
        /\ fs' = IF r = "ok"
                 THEN [fs EXCEPT ![vhost_file(DOMAIN_NAME)] = fs[vhost_temp(DOMAIN_NAME)]]
                 ELSE fs
        /\ pc' = IF r = "ok" THEN 164 ELSE ExceptLine("setup_apache_reverse_proxy", r)
    /\ UNCHANGED <<log, svc, success, calls, exit_status, runs, Config>>

\* lines 164-165
A2enmod ==
    /\ pc = 164
    /\ \E r \in Outcomes :
        /\ cmds' = Invoke(165, <<"sudo", "a2enmod", "proxy", "proxy_http">>, r)
        /\ pc' = IF r = "ok" THEN 167 ELSE ExceptLine("setup_apache_reverse_proxy", r)
    /\ log' = log_message(log, 164, "INFO")
    /\ UNCHANGED <<fs, svc, success, calls, exit_status, runs, Config>>

\* lines 167-171: the inner try catches CalledProcessError only, logs a
\* WARNING and goes on; anything else reaches the step's own handler
A2dissite ==
    /\ pc = 167
    /\ \E r \in Outcomes :
        /\ cmds' = Invoke(169, <<"sudo", "a2dissite", "000-default.conf">>, r)
        /\ log' = IF r = "CalledProcessError"
                  THEN log_message(log_message(log, 167, "INFO"), 171, "WARNING")
                  ELSE log_message(log, 167, "INFO")
        /\ pc' = IF r \in {"ok", "CalledProcessError"}
                 THEN 172 ELSE ExceptLine("setup_apache_reverse_proxy", r)
    /\ UNCHANGED <<fs, svc, success, calls, exit_status, runs, Config>>

\* line 172
A2ensite ==
    /\ pc = 172
    /\ \E r \in Outcomes :
        /\ cmds' = Invoke(172, <<"sudo", "a2ensite", DOMAIN_NAME \o ".conf">>, r)
        /\ pc' = IF r = "ok" THEN 174 ELSE ExceptLine("setup_apache_reverse_proxy", r)
    /\ UNCHANGED <<log, fs, svc, success, calls, exit_status, runs, Config>>

\* lines 174-175
ReloadApache ==
    /\ pc = 174
    /\ \E r \in Outcomes :
        /\ cmds' = Invoke(175, <<"sudo", "systemctl", "reload", "apache2">>, r)
        /\ pc' = IF r = "ok" THEN 177 ELSE ExceptLine("setup_apache_reverse_proxy", r)
    /\ log' = log_message(log, 174, "INFO")
    /\ UNCHANGED <<fs, svc, success, calls, exit_status, runs, Config>>

\* Faulty variant: the step returns True without starting the service again.
RestartService_missing ==
    /\ pc = 177
    /\ log' = log_message(log_message(log, 180, "INFO"), 181, "INFO")
    /\ success' = [success EXCEPT !["setup_apache_reverse_proxy"] = "True"]
    /\ pc' = GateLine("setup_apache_reverse_proxy")
    /\ UNCHANGED <<cmds, fs, svc, calls, exit_status, runs, Config>>

\* lines 177-182
RestartService ==
    /\ pc = 177
    /\ \E r \in Outcomes :
        /\ cmds' = Invoke(178, <<"sudo", "systemctl", "start", "tooltrack">>, r)
        /\ svc' = IF r = "ok" THEN [svc EXCEPT !.running = TRUE] ELSE svc
        /\ IF r = "ok"
           THEN /\ log' = log_message(log_message(log_message(log,
                              177, "INFO"), 180, "INFO"), 181, "INFO")
                /\ success' = [success EXCEPT !["setup_apache_reverse_proxy"] = "True"]
                /\ pc' = GateLine("setup_apache_reverse_proxy")
           ELSE /\ log' = log_message(log, 177, "INFO")
                /\ success' = success
                /\ pc' = ExceptLine("setup_apache_reverse_proxy", r)
    /\ UNCHANGED <<fs, calls, exit_status, runs, Config>>

-----------------------------------------------------------------------------
\* setup_ssl_certificates (lines 233-275)

\* lines 236-237
SnapInstallCertbot ==
    /\ pc = 236
    /\ \E r \in Outcomes :
        /\ cmds' = Invoke(237, <<"sudo", "snap", "install", "--classic", "certbot">>, r)
        /\ pc' = IF r = "ok" THEN 239 ELSE ExceptLine("setup_ssl_certificates", r)
    /\ log' = log_message(log, 236, "INFO")
    /\ UNCHANGED <<fs, svc, success, calls, exit_status, runs, Config>>

\* lines 239-240
LnCertbot ==
    /\ pc = 239
    /\ \E r \in Outcomes :
        /\ cmds' = Invoke(240, <<"sudo", "ln", "-sf", "/snap/bin/certbot", certbot_link>>, r)
        /\ fs' = IF r = "ok"
                 THEN [fs EXCEPT ![certbot_link] = "-> /snap/bin/certbot"]
                 ELSE fs
        /\ pc' = IF r = "ok" THEN 242 ELSE ExceptLine("setup_ssl_certificates", r)
    /\ log' = log_message(log, 239, "INFO")
    /\ UNCHANGED <<svc, success, calls, exit_status, runs, Config>>

\* lines 242-259
WriteExpectScript ==
    /\ pc = 242
    /\ \E r \in PyOutcomes :
        /\ fs' = IF r = "ok" THEN [fs EXCEPT ![expect_file] = expect_script] ELSE fs
        /\ pc' = IF r = "ok" THEN 261 ELSE ExceptLine("setup_ssl_certificates", r)
    /\ log' = log_message(log, 242, "INFO")
    /\ UNCHANGED <<cmds, svc, success, calls, exit_status, runs, Config>>

\* line 261
ChmodExpect ==
    /\ pc = 261
    /\ \E r \in Outcomes :
        /\ cmds' = Invoke(261, <<"chmod", "+x", expect_file>>, r)
        /\ pc' = IF r = "ok" THEN 262 ELSE ExceptLine("setup_ssl_certificates", r)
    /\ UNCHANGED <<log, fs, svc, success, calls, exit_status, runs, Config>>

\* line 262
AptInstallExpect ==
    /\ pc = 262
    /\ \E r \in Outcomes :
        /\ cmds' = Invoke(262, <<"sudo", "apt", "install", "-y", "expect">>, r)
        /\ pc' = IF r = "ok" THEN 264 ELSE ExceptLine("setup_ssl_certificates", r)
    /\ UNCHANGED <<log, fs, svc, success, calls, exit_status, runs, Config>>

\* lines 264-269
RunExpectScript ==
    /\ pc = 264
    /\ \E r \in Outcomes :
        /\ cmds' = Invoke(265, <<expect_file>>, r)
        /\ IF r = "ok"
           THEN /\ log' = log_message(log_message(log_message(log,
                              264, "INFO"), 267, "INFO"), 268, "INFO")
                /\ success' = [success EXCEPT !["setup_ssl_certificates"] = "True"]
                /\ pc' = GateLine("setup_ssl_certificates")
           ELSE /\ log' = log_message(log, 264, "INFO")
                /\ success' = success
                /\ pc' = ExceptLine("setup_ssl_certificates", r)
    /\ UNCHANGED <<fs, svc, calls, exit_status, runs, Config>>

-----------------------------------------------------------------------------
Next ==
    \/ MainStart \/ MainCall \/ MainGate \/ ExceptHandler \/ Rerun
    \/ AptUpdate \/ AptInstallPython
    \/ CheckBaseDir \/ MkdirBase \/ ChownBase \/ CheckTargetDir \/ RmTarget \/ GitClone
    \/ EnterProjectDir \/ CreateVenv \/ CheckRequirements \/ PipInstall
    \/ WriteServiceTemp \/ CpService \/ DaemonReload \/ StartService \/ EnableService
    \/ AptInstallApache \/ StopService \/ RmDefaultSsl \/ CheckDefaultConf
    \/ MvDefaultConf \/ WriteVhostTemp \/ CpVhost \/ A2enmod \/ A2dissite
    \/ A2ensite \/ ReloadApache \/ RestartService
    \/ SnapInstallCertbot \/ LnCertbot \/ WriteExpectScript \/ ChmodExpect
    \/ AptInstallExpect \/ RunExpectScript

Spec == Init /\ [][Next]_vars

-----------------------------------------------------------------------------
\* Vocabulary of the properties.

Last(s) == s[Len(s)]
Exited == pc = 0

\* The step whose body holds the given source line (the def blocks).
StepOfLine(l) ==
    CASE l \in 34..63 -> "setup_virtual_environment"
      [] l \in 74..90 -> "install_prerequisites"
      [] l \in 92..123 -> "clone_repository"
      [] l \in 125..188 -> "setup_apache_reverse_proxy"
      [] l \in 190..231 -> "setup_background_service"
      [] l \in 233..275 -> "setup_ssl_certificates"

StartArgv == <<"sudo", "systemctl", "start", "tooltrack">>
StopArgv == <<"sudo", "systemctl", "stop", "tooltrack">>
EnableArgv == <<"sudo", "systemctl", "enable", "tooltrack">>

\* The one failure the code tolerates: a2dissite exiting non-zero (line 169).
Tolerated(c) == c.line = 169 /\ c.result = "CalledProcessError"
\* A command that failed and whose failure the code does not tolerate.
FatalFailure(c) == c.result # "ok" /\ ~Tolerated(c)

\* The log holds an entry of this level written from a line of the set.
Logged(level, lines) ==
    \E k \in 1..Len(log) : log[k].level = level /\ log[k].line \in lines

\* The step of a failed command is still the last one called, and the run
\* is either on its way out through that step's handler and gate, or has
\* exited with status 1.
HaltsAt(i) ==
    LET s == StepOfLine(cmds[i].line) IN
    /\ i = Len(cmds)
    /\ Len(calls) > 0 /\ Last(calls) = s
    /\ pc \in {ExceptLine(s, "CalledProcessError"), ExceptLine(s, "Exception"),
               GateLine(s), 0}
    /\ Exited => exit_status = 1

-----------------------------------------------------------------------------
\* C1 as stated: in every run, a command of any step that reports failure
\* is the last command invoked, no later step is called, and the run ends
\* with a non-zero exit status.
C1_AnyFailureHalts ==
    \A i \in 1..Len(cmds) : cmds[i].result = "CalledProcessError" => HaltsAt(i)

\* C1 amended: every failed command other than a2dissite 000-default.conf
\* exiting non-zero is the last command invoked, its step is the last step
\* called, and the run ends with exit status 1; after a2dissite exits
\* non-zero the step goes on with a2ensite.
C1_FatalFailureHalts ==
    /\ \A i \in 1..Len(cmds) : FatalFailure(cmds[i]) => HaltsAt(i)
    /\ \A i \in 1..Len(cmds) :
          Tolerated(cmds[i]) =>
              /\ pc # ExceptLine("setup_apache_reverse_proxy", "CalledProcessError")
                    \/ i < Len(cmds)
              /\ i < Len(cmds) => cmds[i + 1].line = 172

\* A run in which a2dissite exited non-zero, the run went on into the last
\* step and was then stopped there by a failing command.
C1_Witness ==
    /\ Exited /\ exit_status = 1
    /\ \E i \in 1..Len(cmds) : Tolerated(cmds[i])
    /\ Len(cmds) > 0
    /\ Last(cmds).line = 262 /\ Last(cmds).result = "CalledProcessError"

-----------------------------------------------------------------------------
-----------------------------------------------------------------------------
\* The argument lists of a complete run in the documented order.
FullOrder(d) == <<
    <<"sudo", "apt", "update">>,
    <<"sudo", "apt", "install", "-y", "python3-venv", "python3-pip">>,
    <<"sudo", "mkdir", "-p", "/srv">>,
    <<"sudo", "chown", "ubuntu:ubuntu", "/srv">>,
    <<"sudo", "rm", "-rf", "/srv/cs333_FinalProject">>,
    <<"git", "clone", "https://github.com/pakin6509681182/cs333_FinalProject.git",
      "/srv/cs333_FinalProject">>,
    <<"python3", "-m", "venv", "venv">>,
    <<"/srv/cs333_FinalProject/venv/bin/pip", "install", "-r", "requirements.txt">>,
    <<"sudo", "cp", "/tmp/tooltrack.service", "/etc/systemd/system/tooltrack.service">>,
    <<"sudo", "systemctl", "daemon-reload">>,
    <<"sudo", "systemctl", "start", "tooltrack">>,
    <<"sudo", "systemctl", "enable", "tooltrack">>,
    <<"sudo", "apt", "install", "-y", "apache2">>,
    <<"sudo", "systemctl", "stop", "tooltrack">>,
    <<"sudo", "rm", "-f", "/etc/apache2/sites-available/default-ssl.conf">>,
    <<"sudo", "mv", "/etc/apache2/sites-available/000-default.conf",
      "/etc/apache2/sites-available/" \o d \o ".conf">>,
    <<"sudo", "cp", "/tmp/" \o d \o ".conf",
      "/etc/apache2/sites-available/" \o d \o ".conf">>,
    <<"sudo", "a2enmod", "proxy", "proxy_http">>,
    <<"sudo", "a2dissite", "000-default.conf">>,
    <<"sudo", "a2ensite", d \o ".conf">>,
    <<"sudo", "systemctl", "reload", "apache2">>,
    <<"sudo", "systemctl", "start", "tooltrack">>,
    <<"sudo", "snap", "install", "--classic", "certbot">>,
    <<"sudo", "ln", "-sf", "/snap/bin/certbot", "/usr/bin/certbot">>,
    <<"chmod", "+x", "/tmp/certbot_expect.exp">>,
    <<"sudo", "apt", "install", "-y", "expect">>,
    <<"/tmp/certbot_expect.exp">> >>

\* The places of FullOrder whose command is run only under a condition:
\* mkdir, rm -rf, pip install, mv.
ConditionalPlaces == {3, 5, 8, 16}

ArgvOf(s) == [i \in 1..Len(s) |-> s[i].argv]

\* FullOrder without the conditional commands that did not run.
RECURSIVE Kept(_, _, _)
Kept(full, i, ran) ==
    IF i > Len(full) THEN << >>
    ELSE IF i \in ConditionalPlaces /\ full[i] \notin ran
         THEN Kept(full, i + 1, ran)
         ELSE <<full[i]>> \o Kept(full, i + 1, ran)

\* C3: in a run where every external command succeeds, the six steps are
\* called exactly once each in the fixed order, and the commands invoked are
\* exactly the documented ones with the documented argument lists in the
\* documented order (the conditional ones present or not).
C3_FixedOrder ==
    (Exited /\ exit_status = 0 /\ \A i \in 1..Len(cmds) : cmds[i].result = "ok") =>
        /\ calls = Steps
        /\ ArgvOf(cmds) = Kept(FullOrder(DOMAIN_NAME), 1,
                               {cmds[i].argv : i \in 1..Len(cmds)})

\* A complete run with every command succeeding that removed an existing
\* target, installed the requirements and moved 000-default.conf (mkdir and
\* rm -rf exclude each other: 26 of the 27 commands).
C3_Witness ==
    /\ Exited /\ exit_status = 0
    /\ \A i \in 1..Len(cmds) : cmds[i].result = "ok"
    /\ Len(cmds) = 26

-----------------------------------------------------------------------------
\* In clone_repository a target directory that exists at the check is
\* removed before git clone is invoked, so git clone is never invoked onto
\* an existing target; a target that does not exist leads straight to the
\* clone with no command in between; git clone is invoked only right after
\* a successful chown or a successful rm -rf, so never after a failed
\* removal.
C4_CloneState ==
    /\ pc = 109 => exists(PROJECT_DIR)
    /\ pc = 113 => ~exists(PROJECT_DIR)
    /\ \A i \in 1..Len(cmds) :
          cmds[i].line = 114 =>
              /\ i > 1
              /\ cmds[i - 1].result = "ok"
              /\ cmds[i - 1].line \in {102, 109}
    /\ \A i \in 1..Len(cmds) :
          (cmds[i].line = 109 /\ cmds[i].result # "ok") => i = Len(cmds)

\* The step of line 107: no command is invoked by the check itself, an
\* existing target leads to the removal, a missing one to the clone.
C4_CheckStep ==
    pc = 107 =>
        /\ cmds' = cmds
        /\ exists(PROJECT_DIR) => pc' = 109
        /\ ~exists(PROJECT_DIR) => pc' = 113

\* C4: the target directory is removed before the clone whenever it exists
\* at the check, is never removed otherwise, and git clone is never invoked
\* onto an existing target or after a failed removal.
C4_RemoveBeforeClone == [](C4_CloneState) /\ [][C4_CheckStep]_vars

\* git clone has been invoked right after a successful rm -rf of the target.
C4_Witness ==
    /\ Len(cmds) >= 2
    /\ Last(cmds).line = 114
    /\ cmds[Len(cmds) - 1].line = 109
    /\ cmds[Len(cmds) - 1].result = "ok"

-----------------------------------------------------------------------------
\* The virtual-host file the specification describes, written out.
ExpectedVhost(d, p) ==
    "<VirtualHost *:80>\n"
    \o "        ServerName " \o d \o "\n"
    \o "        ServerAlias www." \o d \o "\n\n"
    \o "        ProxyPass / http://127.0.0.1:" \o ToString(p) \o "/\n"
    \o "        ProxyPassReverse / http://127.0.0.1:" \o ToString(p) \o "/\n\n"
    \o "</VirtualHost>\n\n# vim: syntax=apache ts=4 sw=4 sts=4 sr noet\n"

ExampleVhost ==
    "<VirtualHost *:80>\n        ServerName example.com\n        ServerAlias www.example.com\n\n        ProxyPass / http://127.0.0.1:9000/\n        ProxyPassReverse / http://127.0.0.1:9000/\n\n</VirtualHost>\n\n# vim: syntax=apache ts=4 sw=4 sts=4 sr noet\n"

\* C5: once setup_apache_reverse_proxy has returned True, the virtual-host
\* file holds exactly the template with the configured domain and port,
\* whether or not 000-default.conf was first moved onto it; for example.com
\* and port 9000 it is the documented text.
C5_VhostFile ==
    success["setup_apache_reverse_proxy"] = "True" =>
        /\ fs[vhost_file(DOMAIN_NAME)] = ExpectedVhost(DOMAIN_NAME, APP_PORT)
        /\ (DOMAIN_NAME = "example.com" /\ APP_PORT = 9000) =>
               fs["/etc/apache2/sites-available/example.com.conf"] = ExampleVhost

\* The step returned True for example.com and port 9000 after moving
\* 000-default.conf onto the virtual-host file.
C5_Witness ==
    /\ success["setup_apache_reverse_proxy"] = "True"
    /\ DOMAIN_NAME = "example.com" /\ APP_PORT = 9000
    /\ \E i \in 1..Len(cmds) : cmds[i].line = 157 /\ cmds[i].result = "ok"

-----------------------------------------------------------------------------
\* The failure of a command is reported and fatal: its step never returns
\* True, and once the step has returned, the log holds an ERROR entry
\* written by the step's except clause.
Reported(c) ==
    LET s == StepOfLine(c.line) IN
    /\ success[s] # "True"
    /\ success[s] = "False" =>
          Logged("ERROR", {ExceptLine(s, "CalledProcessError") + 1,
                           ExceptLine(s, "Exception") + 1})

\* C6 as stated: every failure of an external command inside a step yields
\* an ERROR entry from the step and makes the step return False.
C6_EveryFailureFatal ==
    \A i \in 1..Len(cmds) : cmds[i].result = "CalledProcessError" => Reported(cmds[i])

\* C6 amended: every failure of an external command is reported with an
\* ERROR entry and makes its step return False, except a2dissite
\* 000-default.conf exiting non-zero, which is logged as a WARNING (line
\* 171) and does not keep the step from returning True.
C6_FatalFailureReported ==
    /\ \A i \in 1..Len(cmds) : FatalFailure(cmds[i]) => Reported(cmds[i])
    /\ \A i \in 1..Len(cmds) : Tolerated(cmds[i]) => Logged("WARNING", {171})

\* The step has returned False after a command of it exited non-zero, in a
\* run in which a2dissite had exited non-zero before.
C6_Witness ==
    /\ success["setup_apache_reverse_proxy"] = "False"
    /\ \E i \in 1..Len(cmds) : Tolerated(cmds[i])
    /\ Last(cmds).line = 175 /\ Last(cmds).result = "CalledProcessError"

-----------------------------------------------------------------------------
\* C7: no retries: in a run each step function is called at most once, and
\* an argument list whose command failed is never invoked again.
C7_NoRetry ==
    /\ \A i, j \in 1..Len(calls) : calls[i] = calls[j] => i = j
    /\ \A i, j \in 1..Len(cmds) :
          (i < j /\ cmds[i].result # "ok") => cmds[j].argv # cmds[i].argv

\* A run that went on after a failed command and exited after a second one.
C7_Witness ==
    /\ Exited
    /\ \E i \in 1..Len(cmds) : i < Len(cmds) /\ cmds[i].result # "ok"
    /\ Last(cmds).result # "ok"

-----------------------------------------------------------------------------
PipArgv == <<"/srv/cs333_FinalProject/venv/bin/pip", "install", "-r", "requirements.txt">>
PipInvoked == \E i \in 1..Len(cmds) : cmds[i].argv = PipArgv

\* C8: the dependency installer is invoked only right after a successful
\* venv creation with requirements.txt present; once venv creation has
\* succeeded and the check is passed, it has been invoked exactly when
\* requirements.txt exists; without requirements.txt the step logs a WARNING,
\* returns True, and the run goes on to setup_background_service.
C8_Requirements ==
    /\ \A i \in 1..Len(cmds) :
          cmds[i].argv = PipArgv =>
              /\ i > 1
              /\ cmds[i - 1].argv = <<"python3", "-m", "venv", "venv">>
              /\ cmds[i - 1].result = "ok"
              /\ exists(requirements_txt)
    /\ (\/ success["setup_virtual_environment"] # "unset"
        \/ pc \in {ExceptLine("setup_virtual_environment", "CalledProcessError"),
                   ExceptLine("setup_virtual_environment", "Exception")}) =>
          (PipInvoked <=>
              /\ \E i \in 1..Len(cmds) : cmds[i].line = 44 /\ cmds[i].result = "ok"
              /\ exists(requirements_txt))
    /\ (/\ \E i \in 1..Len(cmds) : cmds[i].line = 44 /\ cmds[i].result = "ok"
        /\ ~exists(requirements_txt)
        /\ pc # 47) =>
          /\ ~PipInvoked
          /\ Logged("WARNING", {52})
          /\ success["setup_virtual_environment"] = "True"
          /\ pc # GateLine("setup_virtual_environment") =>
                 \/ pc = CallLine("setup_background_service")
                 \/ Len(calls) >= 4 /\ calls[4] = "setup_background_service"

\* The run has gone on into setup_background_service after a venv step
\* that found no requirements.txt.
C8_Witness ==
    /\ ~exists(requirements_txt)
    /\ Logged("WARNING", {52})
    /\ ~PipInvoked
    /\ pc = 212

-----------------------------------------------------------------------------
\* C9: whenever the run exits with status 0 the tooltrack service is running
\* and enabled: the stop at the beginning of setup_apache_reverse_proxy
\* succeeded and is followed by a successful start, no start or stop comes
\* after that start, and systemctl enable tooltrack has succeeded.
C9_ServiceUp ==
    (Exited /\ exit_status = 0) =>
        /\ svc.running /\ svc.enabled
        /\ \E i, j \in 1..Len(cmds) :
              /\ i < j
              /\ cmds[i].argv = StopArgv /\ cmds[i].result = "ok"
              /\ cmds[j].argv = StartArgv /\ cmds[j].result = "ok"
              /\ \A k \in (j + 1)..Len(cmds) : cmds[k].argv \notin {StartArgv, StopArgv}
        /\ \E i \in 1..Len(cmds) : cmds[i].argv = EnableArgv /\ cmds[i].result = "ok"

\* A second run of the script has exited with status 0.
C9_Witness ==
    /\ Exited /\ exit_status = 0
    /\ runs = 2

-----------------------------------------------------------------------------
\* The stop of line 132 has succeeded, the step has failed or is failing,
\* and the start of line 178 was not reached.
StoppedThenFailed ==
    /\ \E i \in 1..Len(cmds) : cmds[i].line = 132 /\ cmds[i].result = "ok"
    /\ \/ pc \in {ExceptLine("setup_apache_reverse_proxy", "CalledProcessError"),
                  ExceptLine("setup_apache_reverse_proxy", "Exception")}
       \/ success["setup_apache_reverse_proxy"] = "False"
    /\ \A i \in 1..Len(cmds) : cmds[i].line # 178

\* C10: no rollback in setup_apache_reverse_proxy: when the step fails after
\* the stop has succeeded and before the start is reached, no start is
\* issued after the stop, the service is left stopped, no later step is
\* called, and the run exits with status 1.
C10_NoRollback ==
    StoppedThenFailed =>
        /\ \A i, j \in 1..Len(cmds) :
              (cmds[i].line = 132 /\ i < j) => cmds[j].argv # StartArgv
        /\ ~svc.running
        /\ Last(calls) = "setup_apache_reverse_proxy"
        /\ Exited => exit_status = 1

\* The run has exited after a2ensite failed between the stop and the start.
C10_Witness ==
    /\ StoppedThenFailed
    /\ Exited
    /\ Last(cmds).line = 172

====
